---- MODULE Spec2Model ----
(***************************************************************************)
(* Boolean expression evaluator (boolexpr.c / boolexpr.h) and its test     *)
(* driver (main.c): token table, tokenizer, token lists, shunting-yard     *)
(* conversion, evaluation, error code.                                     *)
(*                                                                         *)
(* A text is a sequence of one-character strings; a pointer to a token_t   *)
(* is the C index 0..6 of its element of token_info.                       *)
(***************************************************************************)
EXTENDS Integers, Sequences, FiniteSets, TLC

(***************************************************************************)
(* boolexpr.h: token IDs and error codes                                   *)
(***************************************************************************)
BEXPR_INVALID == -1
BEXPR_FALSE == 0
BEXPR_TRUE == 1
BEXPR_AND == 2
BEXPR_OR == 3
BEXPR_NOT == 4
BEXPR_LPAREN == 5
BEXPR_RPAREN == 6

BEXPR_ERR_OK == 0
BEXPR_ERR_FATAL == 1
BEXPR_ERR_EXPECTED_TOKEN == 2
BEXPR_ERR_INVALID_TOKEN == 3
BEXPR_ERR_EXPECTED_LPAREN == 4
BEXPR_ERR_EXPECTED_RPAREN == 5
BEXPR_ERR_UNMATCHED_PARENS == 6
BEXPR_ERR_EMPTY_EXPRESSION == 7
BEXPR_ERROR_COUNT == 8

(***************************************************************************)
(* boolexpr.c: associativity, arity, token table                           *)
(***************************************************************************)
BEXPR_LTR == 0
BEXPR_RTL == 1
BEXPR_UNARY == 1
BEXPR_BINARY == 2
MAX_TOKEN_LEN == 5

\* number of elements of token_info: ARRAY_LEN(token_info)
TOKEN_INFO_LEN == 7

\* the NULL pointer (no element of token_info)
NULL == -1

\* the terminating nul character of a C string
NUL == "NUL"

token_info ==
    << [text |-> <<"f","a","l","s","e">>, id |-> BEXPR_FALSE,
        arity |-> 0, assoc |-> 0, prec |-> 0],
       [text |-> <<"t","r","u","e">>, id |-> BEXPR_TRUE,
        arity |-> 0, assoc |-> 0, prec |-> 0],
       [text |-> <<"(">>, id |-> BEXPR_LPAREN,
        arity |-> 0, assoc |-> BEXPR_LTR, prec |-> 4],
       [text |-> <<")">>, id |-> BEXPR_RPAREN,
        arity |-> 0, assoc |-> BEXPR_LTR, prec |-> 4],
       [text |-> <<"!">>, id |-> BEXPR_NOT,
        arity |-> BEXPR_UNARY, assoc |-> BEXPR_RTL, prec |-> 3],
       [text |-> <<"&","&">>, id |-> BEXPR_AND,
        arity |-> BEXPR_BINARY, assoc |-> BEXPR_LTR, prec |-> 2],
       [text |-> <<"|","|">>, id |-> BEXPR_OR,
        arity |-> BEXPR_BINARY, assoc |-> BEXPR_LTR, prec |-> 1] >>

\* token_info[i] for a C index i (the dereference of a token pointer)
Tok(p) == token_info[p + 1]

token_chars ==
    {"(", ")", "!", "&", "|", "0", "1", "a", "e", "f", "l", "r", "s", "t", "u"}

\* isspace(): the whitespace characters the model's texts use
WhiteSpace == {" "}

(***************************************************************************)
(* Error messages                                                          *)
(***************************************************************************)
error_messages ==
    << "OK",
       "fatal error",
       "expected token",
       "invalid token",
       "expected left parenthesis",
       "expected right parenthesis",
       "unmatched parentheses",
       "expression is empty" >>

\* bexpr_strerror with the lower test "errnum <= 0"
bexpr_strerror_zero_unknown(errnum) ==
    IF errnum <= 0 \/ errnum >= Len(error_messages)
    THEN "unknown error"
    ELSE error_messages[errnum + 1]

\* ARRAY_LEN(error_messages) is Len(error_messages); C index errnum is
\* element errnum + 1
bexpr_strerror(errnum) ==
    IF errnum < 0 \/ errnum >= Len(error_messages)
    THEN "unknown error"
    ELSE error_messages[errnum + 1]

(***************************************************************************)
(* Token handling                                                          *)
(***************************************************************************)
RECURSIVE skip_whitespace(_)
skip_whitespace(s) ==
    IF s # <<>> /\ Head(s) \in WhiteSpace THEN skip_whitespace(Tail(s)) ELSE s

is_token_char(ch) == ch \in token_chars

is_valid_token_id(id) == id >= 0 /\ id < TOKEN_INFO_LEN

\* is_operand taking BEXPR_TRUE only for an operand
is_operand_true_only(id) ==
    is_valid_token_id(id) /\ id = BEXPR_TRUE

is_operand(id) ==
    is_valid_token_id(id) /\ (id = BEXPR_FALSE \/ id = BEXPR_TRUE)

\* character k (1-based) of the C string s, NUL at and after its end
CharAt(s, k) == IF k <= Len(s) THEN s[k] ELSE NUL

\* strncmp(a, b, n) == 0: the first n characters agree, up to a's NUL
strncmp_eq(a, b, n) ==
    \A k \in 1..n :
        (\A j \in 1..(k - 1) : CharAt(a, j) # NUL) => CharAt(a, k) = CharAt(b, k)

\* length of the run of token characters at the start of text (pos - text)
RECURSIVE token_run(_)
token_run(text) ==
    IF text # <<>> /\ is_token_char(Head(text))
    THEN 1 + token_run(Tail(text))
    ELSE 0

\* the first element of token_info whose text matches tlen characters
token_hits(text, tlen) ==
    {i \in 0..(TOKEN_INFO_LEN - 1) : strncmp_eq(Tok(i).text, text, tlen)}

SetMin(S) == CHOOSE x \in S : \A y \in S : x <= y

\* token_lookup returning the index in token_info in place of the id member
RECURSIVE token_lookup_index(_, _)
token_lookup_index(text, tlen) ==
    IF tlen < 1
    THEN [id |-> BEXPR_INVALID, endptr |-> <<>>, err |-> BEXPR_ERR_INVALID_TOKEN]
    ELSE IF token_hits(text, tlen) # {}
         THEN [id |-> SetMin(token_hits(text, tlen)),
               endptr |-> SubSeq(text, tlen + 1, Len(text)),
               err |-> BEXPR_ERR_OK]
         ELSE token_lookup_index(text, tlen - 1)

\* the lookup trying the full length tlen only, without the loop to 1
token_lookup_once(text, tlen) ==
    IF tlen >= 1 /\ token_hits(text, tlen) # {}
    THEN [id |-> Tok(SetMin(token_hits(text, tlen))).id,
          endptr |-> SubSeq(text, tlen + 1, Len(text)),
          err |-> BEXPR_ERR_OK]
    ELSE [id |-> BEXPR_INVALID, endptr |-> <<>>, err |-> BEXPR_ERR_INVALID_TOKEN]

\* the greedy lookup loop of token_parse: try tlen, tlen-1, ..., 1
RECURSIVE token_lookup(_, _)
token_lookup(text, tlen) ==
    IF tlen < 1
    THEN [id |-> BEXPR_INVALID, endptr |-> <<>>, err |-> BEXPR_ERR_INVALID_TOKEN]
    ELSE IF token_hits(text, tlen) # {}
         THEN [id |-> Tok(SetMin(token_hits(text, tlen))).id,
               endptr |-> SubSeq(text, tlen + 1, Len(text)),
               err |-> BEXPR_ERR_OK]
         ELSE token_lookup(text, tlen - 1)

\* token_parse reporting "invalid token" when it finds no token character
token_parse_no_run_invalid(text0) ==
    LET text == skip_whitespace(text0)
        run  == token_run(text)
    IN  IF run = 0
        THEN [id |-> BEXPR_INVALID, endptr |-> <<>>,
              err |-> BEXPR_ERR_INVALID_TOKEN]
        ELSE token_lookup(text, IF run > MAX_TOKEN_LEN THEN MAX_TOKEN_LEN ELSE run)

\* token_parse(text, &endptr): id, the text from endptr on, the error it sets
token_parse(text0) ==
    LET text == skip_whitespace(text0)
        run  == token_run(text)
    IN  IF run = 0
        THEN [id |-> BEXPR_INVALID, endptr |-> <<>>,
              err |-> BEXPR_ERR_EXPECTED_TOKEN]
        ELSE token_lookup(text, IF run > MAX_TOKEN_LEN THEN MAX_TOKEN_LEN ELSE run)

token_get(id) == IF is_valid_token_id(id) THEN id ELSE NULL

(***************************************************************************)
(* Dynamic token list: [tokens: the elements 0..index, size: allocated]    *)
(***************************************************************************)
TLIST_INITIAL_SIZE == 32

token_list_init == [tokens |-> <<>>, size |-> TLIST_INITIAL_SIZE]

token_list_reset(list) == [list EXCEPT !.tokens = <<>>]

\* token_list_resize_maybe that never grows the array
token_list_resize_never(list) == list

token_list_resize_maybe(list) ==
    IF Len(list.tokens) = list.size
    THEN [list EXCEPT !.size = list.size * 2]
    ELSE list

token_list_length(list) == Len(list.tokens)

token_list_is_empty(list) == Len(list.tokens) = 0

token_list_push(list, token) ==
    [token_list_resize_maybe(list) EXCEPT !.tokens = Append(@, token)]

\* [ret, list]
token_list_push_id(list, id) ==
    IF token_get(id) # NULL
    THEN [ret |-> TRUE, list |-> token_list_push(list, token_get(id))]
    ELSE [ret |-> FALSE, list |-> list]

token_list_peek(list) ==
    IF Len(list.tokens) > 0 THEN list.tokens[Len(list.tokens)] ELSE NULL

\* a pull taking the oldest element of the list in place of the newest
token_list_pull_first(list) ==
    IF Len(list.tokens) > 0
    THEN [token |-> list.tokens[1],
          list  |-> [list EXCEPT !.tokens = SubSeq(@, 2, Len(@))]]
    ELSE [token |-> NULL, list |-> list]

\* [token, list]
token_list_pull(list) ==
    IF Len(list.tokens) > 0
    THEN [token |-> list.tokens[Len(list.tokens)],
          list  |-> [list EXCEPT !.tokens = SubSeq(@, 1, Len(@) - 1)]]
    ELSE [token |-> NULL, list |-> list]

token_list_token_at(list, index) ==
    IF index < 0 \/ index >= list.size THEN NULL ELSE list.tokens[index + 1]

(***************************************************************************)
(* Tokenizer and expression building, as functions of the expression and   *)
(* the error code: [ret, list, errno]                                      *)
(***************************************************************************)
\* add_token with the failure path leaving bexpr_errno as it was
add_token_keeps_errno(list, errno, id) ==
    IF token_list_push_id(list, id).ret
    THEN [ret |-> TRUE, list |-> token_list_push_id(list, id).list,
          errno |-> errno]
    ELSE [ret |-> FALSE, list |-> list, errno |-> errno]

add_token(list, errno, id) ==
    IF token_list_push_id(list, id).ret
    THEN [ret |-> TRUE, list |-> token_list_push_id(list, id).list,
          errno |-> errno]
    ELSE [ret |-> FALSE, list |-> list, errno |-> BEXPR_ERR_INVALID_TOKEN]

\* the while loop of bexpr_tokenize
RECURSIVE tokenize_loop(_, _, _)
tokenize_loop(text, list, errno) ==
    IF text = <<>>
    THEN [ret |-> TRUE, list |-> list, errno |-> errno]
    ELSE LET parsed == token_parse(skip_whitespace(text))
         IN  IF parsed.id = BEXPR_INVALID
             THEN [ret |-> FALSE, list |-> list, errno |-> parsed.err]
             ELSE tokenize_loop(parsed.endptr,
                                add_token(list, errno, parsed.id).list,
                                add_token(list, errno, parsed.id).errno)

\* tokenize that empties the expression before it adds its tokens
tokenize_resets_first(text, list, errno) ==
    tokenize_loop(skip_whitespace(text), token_list_reset(list), errno)

\* tokenize that restores the expression it was given when it fails
tokenize_rolls_back(text, list, errno) ==
    IF tokenize_loop(skip_whitespace(text), list, errno).ret
    THEN tokenize_loop(skip_whitespace(text), list, errno)
    ELSE [tokenize_loop(skip_whitespace(text), list, errno) EXCEPT !.list = list]

tokenize(text, list, errno) == tokenize_loop(skip_whitespace(text), list, errno)

(***************************************************************************)
(* Shunting yard: a conversion state is                                    *)
(*   [i, stack, queue, status, err], status "run", "ok" or "fail"          *)
(***************************************************************************)
\* the pull loop of the right parenthesis adding every pulled token to the
\* queue, the left parenthesis too
RECURSIVE rparen_pull_enqueues_all(_, _, _)
rparen_pull_enqueues_all(stack, queue, oper1) ==
    IF token_list_is_empty(stack)
    THEN [stack |-> stack, queue |-> queue, oper1 |-> oper1]
    ELSE LET pulled == token_list_pull(stack)
         IN  rparen_pull_enqueues_all(pulled.list,
                                      token_list_push(queue, pulled.token),
                                      pulled.token)

\* right parenthesis: the pull loop; oper1 is the token pulled last
RECURSIVE rparen_pull(_, _, _)
rparen_pull(stack, queue, oper1) ==
    IF token_list_is_empty(stack)
    THEN [stack |-> stack, queue |-> queue, oper1 |-> oper1]
    ELSE LET pulled == token_list_pull(stack)
         IN  rparen_pull(pulled.list,
                         IF Tok(pulled.token).id # BEXPR_LPAREN
                         THEN token_list_push(queue, pulled.token)
                         ELSE queue,
                         pulled.token)

\* does the operator oper2 on top of the stack leave before oper1 is pushed
pops_before(oper2, oper1) ==
    \/ Tok(oper2).prec > Tok(oper1).prec
    \/ Tok(oper2).prec = Tok(oper1).prec /\ Tok(oper1).assoc = BEXPR_LTR

\* one iteration of the pull loop of the right parenthesis that looks at a
\* left parenthesis on top of the stack and leaves it there
rparen_iter_leaves_lparen(stack, queue) ==
    IF Tok(token_list_peek(stack)).id = BEXPR_LPAREN
    THEN [stack |-> stack, queue |-> queue, oper1 |-> token_list_peek(stack)]
    ELSE [stack |-> token_list_pull(stack).list,
          queue |-> token_list_push(queue, token_list_pull(stack).token),
          oper1 |-> token_list_pull(stack).token]

\* one iteration of the pull loop of the right parenthesis, the stack not
\* being empty: [stack, queue, oper1]
rparen_iter(stack, queue) ==
    [stack |-> token_list_pull(stack).list,
     queue |-> IF Tok(token_list_pull(stack).token).id # BEXPR_LPAREN
               THEN token_list_push(queue, token_list_pull(stack).token)
               ELSE queue,
     oper1 |-> token_list_pull(stack).token]

\* operator: the tokens oper2 of the stack that reach the precedence test
\* while oper1 is handled
RECURSIVE compared(_, _)
compared(stack, oper1) ==
    IF token_list_is_empty(stack) THEN {}
    ELSE IF Tok(token_list_peek(stack)).id = BEXPR_LPAREN THEN {}
    ELSE {token_list_peek(stack)}
         \cup (IF pops_before(token_list_peek(stack), oper1)
               THEN compared(token_list_pull(stack).list, oper1)
               ELSE {})

\* operator: the loop that moves operators from the stack to the queue
RECURSIVE operator_pull(_, _, _)
operator_pull(stack, queue, oper1) ==
    IF token_list_is_empty(stack)
    THEN [stack |-> stack, queue |-> queue]
    ELSE IF Tok(token_list_peek(stack)).id = BEXPR_LPAREN
         THEN [stack |-> stack, queue |-> queue]
         ELSE IF pops_before(token_list_peek(stack), oper1)
              THEN operator_pull(token_list_pull(stack).list,
                                 token_list_push(queue, token_list_pull(stack).token),
                                 oper1)
              ELSE [stack |-> stack, queue |-> queue]

\* one iteration of the for loop of infix_to_postfix, on token c.i
convert_token(expr, c) ==
    LET oper1 == token_list_token_at(expr, c.i)
    IN  IF is_operand(Tok(oper1).id)
        THEN [c EXCEPT !.i = c.i + 1,
                       !.queue = token_list_push(c.queue, oper1)]
        ELSE IF Tok(oper1).id = BEXPR_LPAREN
        THEN [c EXCEPT !.i = c.i + 1,
                       !.stack = token_list_push(c.stack, oper1)]
        ELSE IF Tok(oper1).id = BEXPR_RPAREN
        THEN LET r == rparen_pull(c.stack, c.queue, oper1)
             IN  IF Tok(r.oper1).id # BEXPR_LPAREN
                 THEN [c EXCEPT !.stack = r.stack, !.queue = r.queue,
                                !.status = "fail",
                                !.err = BEXPR_ERR_EXPECTED_LPAREN]
                 ELSE [c EXCEPT !.i = c.i + 1,
                                !.stack = r.stack, !.queue = r.queue]
        ELSE LET r == operator_pull(c.stack, c.queue, oper1)
             IN  [c EXCEPT !.i = c.i + 1,
                           !.stack = token_list_push(r.stack, oper1),
                           !.queue = r.queue]

\* the final loop of infix_to_postfix: empty the operator stack
RECURSIVE convert_drain(_)
convert_drain(c) ==
    IF token_list_is_empty(c.stack)
    THEN [c EXCEPT !.status = "ok"]
    ELSE LET pulled == token_list_pull(c.stack)
         IN  IF Tok(pulled.token).id = BEXPR_LPAREN
             THEN [c EXCEPT !.stack = pulled.list, !.status = "fail",
                            !.err = BEXPR_ERR_UNMATCHED_PARENS]
             ELSE convert_drain([c EXCEPT !.stack = pulled.list,
                                          !.queue = token_list_push(c.queue,
                                                                    pulled.token)])

RECURSIVE convert_loop(_, _)
convert_loop(expr, c) ==
    IF c.status # "run" THEN c
    ELSE IF c.i < token_list_length(expr)
         THEN convert_loop(expr, convert_token(expr, c))
         ELSE convert_drain(c)

\* infix_to_postfix() on the expression, the stack and the queue
infix_to_postfix(expr, stack, queue) ==
    convert_loop(expr, [i |-> 0, stack |-> stack, queue |-> queue,
                        status |-> "run", err |-> BEXPR_ERR_OK])

\* eval_postfix(&result): [ret, result]
eval_postfix(queue) == [ret |-> TRUE, result |-> TRUE]

\* evaluate with the length test "< 0" in place of "<= 0"
evaluate_accepts_empty(expr, stack, queue, errno) ==
    LET c == infix_to_postfix(expr, token_list_reset(stack),
                              token_list_reset(queue))
    IN  IF c.status # "ok"
        THEN [ret |-> FALSE, result |-> FALSE, stack |-> c.stack,
              queue |-> c.queue, errno |-> c.err]
        ELSE [ret |-> TRUE, result |-> eval_postfix(c.queue).result,
              stack |-> token_list_reset(c.stack),
              queue |-> c.queue, errno |-> errno]

\* evaluate without "*result = false" at its start: on the paths that return
\* before eval_postfix the caller's variable keeps what it held, here TRUE
evaluate_result_unset(expr, stack, queue, errno) ==
    IF token_list_length(expr) <= 0
    THEN [ret |-> FALSE, result |-> TRUE, stack |-> stack, queue |-> queue,
          errno |-> BEXPR_ERR_EMPTY_EXPRESSION]
    ELSE LET c == infix_to_postfix(expr, token_list_reset(stack),
                                   token_list_reset(queue))
         IN  IF c.status # "ok"
             THEN [ret |-> FALSE, result |-> TRUE, stack |-> c.stack,
                   queue |-> c.queue, errno |-> c.err]
             ELSE [ret |-> eval_postfix(c.queue).ret,
                   result |-> eval_postfix(c.queue).result,
                   stack |-> token_list_reset(c.stack),
                   queue |-> c.queue, errno |-> errno]

\* evaluate without SET_ERROR(BEXPR_ERR_EMPTY_EXPRESSION)
evaluate_empty_keeps_errno(expr, stack, queue, errno) ==
    IF token_list_length(expr) <= 0
    THEN [ret |-> FALSE, result |-> FALSE, stack |-> stack, queue |-> queue,
          errno |-> errno]
    ELSE LET c == infix_to_postfix(expr, token_list_reset(stack),
                                   token_list_reset(queue))
         IN  IF c.status # "ok"
             THEN [ret |-> FALSE, result |-> FALSE, stack |-> c.stack,
                   queue |-> c.queue, errno |-> c.err]
             ELSE [ret |-> eval_postfix(c.queue).ret,
                   result |-> eval_postfix(c.queue).result,
                   stack |-> token_list_reset(c.stack),
                   queue |-> c.queue, errno |-> errno]

\* evaluate storing BEXPR_ERR_OK in bexpr_errno when it succeeds
evaluate_clears_errno(expr, stack, queue, errno) ==
    IF token_list_length(expr) <= 0
    THEN [ret |-> FALSE, result |-> FALSE, stack |-> stack, queue |-> queue,
          errno |-> BEXPR_ERR_EMPTY_EXPRESSION]
    ELSE LET c == infix_to_postfix(expr, token_list_reset(stack),
                                   token_list_reset(queue))
         IN  IF c.status # "ok"
             THEN [ret |-> FALSE, result |-> FALSE, stack |-> c.stack,
                   queue |-> c.queue, errno |-> c.err]
             ELSE [ret |-> eval_postfix(c.queue).ret,
                   result |-> eval_postfix(c.queue).result,
                   stack |-> token_list_reset(c.stack),
                   queue |-> c.queue, errno |-> BEXPR_ERR_OK]

\* evaluate without token_list_reset(&token_queue) before the conversion
evaluate_keeps_queue(expr, stack, queue, errno) ==
    IF token_list_length(expr) <= 0
    THEN [ret |-> FALSE, result |-> FALSE, stack |-> stack, queue |-> queue,
          errno |-> BEXPR_ERR_EMPTY_EXPRESSION]
    ELSE LET c == infix_to_postfix(expr, token_list_reset(stack), queue)
         IN  IF c.status # "ok"
             THEN [ret |-> FALSE, result |-> FALSE, stack |-> c.stack,
                   queue |-> c.queue, errno |-> c.err]
             ELSE [ret |-> eval_postfix(c.queue).ret,
                   result |-> eval_postfix(c.queue).result,
                   stack |-> token_list_reset(c.stack),
                   queue |-> c.queue, errno |-> errno]

\* bexpr_evaluate(&result): [ret, result, stack, queue, errno]
evaluate(expr, stack, queue, errno) ==
    IF token_list_length(expr) <= 0
    THEN [ret |-> FALSE, result |-> FALSE, stack |-> stack, queue |-> queue,
          errno |-> BEXPR_ERR_EMPTY_EXPRESSION]
    ELSE LET c == infix_to_postfix(expr, token_list_reset(stack),
                                   token_list_reset(queue))
         IN  IF c.status # "ok"
             THEN [ret |-> FALSE, result |-> FALSE, stack |-> c.stack,
                   queue |-> c.queue, errno |-> c.err]
             ELSE IF ~eval_postfix(c.queue).ret
                  THEN [ret |-> FALSE, result |-> eval_postfix(c.queue).result,
                        stack |-> token_list_reset(c.stack),
                        queue |-> c.queue, errno |-> errno]
                  ELSE [ret |-> TRUE, result |-> eval_postfix(c.queue).result,
                        stack |-> token_list_reset(c.stack),
                        queue |-> c.queue, errno |-> errno]

(***************************************************************************)
(* State of the evaluator and of its caller                                *)
(***************************************************************************)
VARIABLES
    expr_tokens,    \* the infix expression
    token_stack,    \* the operator stack
    token_queue,    \* the output queue
    bexpr_errno,    \* the error code
    last,           \* the call made last: [op, arg, ret, result]
    drv             \* the caller: its position (pc) and what it recorded

vars == <<expr_tokens, token_stack, token_queue, bexpr_errno, last, drv>>

NoCall == [op |-> "init", arg |-> <<>>, ret |-> TRUE, result |-> FALSE]

\* bexpr_init(), with bexpr_errno at its initial value
bexpr_init ==
    /\ expr_tokens = token_list_init
    /\ token_stack = token_list_init
    /\ token_queue = token_list_init
    /\ bexpr_errno = 0
    /\ last = NoCall

\* bexpr_reset without token_list_reset(&expr_tokens)
bexpr_reset_keeps_expr ==
    /\ token_stack' = token_list_reset(token_stack)
    /\ token_queue' = token_list_reset(token_queue)
    /\ UNCHANGED <<expr_tokens, bexpr_errno>>
    /\ last' = [op |-> "reset", arg |-> <<>>, ret |-> TRUE, result |-> FALSE]

\* bexpr_reset done as bexpr_free() followed by bexpr_init(): the lists are
\* allocated anew with their initial size
bexpr_reset_reallocates ==
    /\ expr_tokens' = token_list_init
    /\ token_stack' = token_list_init
    /\ token_queue' = token_list_init
    /\ UNCHANGED bexpr_errno
    /\ last' = [op |-> "reset", arg |-> <<>>, ret |-> TRUE, result |-> FALSE]

bexpr_reset ==
    /\ expr_tokens' = token_list_reset(expr_tokens)
    /\ token_stack' = token_list_reset(token_stack)
    /\ token_queue' = token_list_reset(token_queue)
    /\ UNCHANGED bexpr_errno
    /\ last' = [op |-> "reset", arg |-> <<>>, ret |-> TRUE, result |-> FALSE]

bexpr_add_token(id) ==
    /\ expr_tokens' = add_token(expr_tokens, bexpr_errno, id).list
    /\ bexpr_errno' = add_token(expr_tokens, bexpr_errno, id).errno
    /\ UNCHANGED <<token_stack, token_queue>>
    /\ last' = [op |-> "add_token", arg |-> id,
                ret |-> add_token(expr_tokens, bexpr_errno, id).ret,
                result |-> FALSE]

bexpr_tokenize(text) ==
    /\ expr_tokens' = tokenize(text, expr_tokens, bexpr_errno).list
    /\ bexpr_errno' = tokenize(text, expr_tokens, bexpr_errno).errno
    /\ UNCHANGED <<token_stack, token_queue>>
    /\ last' = [op |-> "tokenize", arg |-> text,
                ret |-> tokenize(text, expr_tokens, bexpr_errno).ret,
                result |-> FALSE]

bexpr_evaluate ==
    LET e == evaluate(expr_tokens, token_stack, token_queue, bexpr_errno)
    IN  /\ UNCHANGED expr_tokens
        /\ token_stack' = e.stack
        /\ token_queue' = e.queue
        /\ bexpr_errno' = e.errno
        /\ last' = [op |-> "evaluate", arg |-> <<>>, ret |-> e.ret,
                    result |-> e.result]
    
(***************************************************************************)
(* Inputs: token identities, items and texts                               *)
(***************************************************************************)
\* the seven token identities of boolexpr.h
TokenIds == BEXPR_FALSE..BEXPR_RPAREN

\* the identities a caller may hand to bexpr_add_token, valid or not
AnyIds == BEXPR_INVALID..(BEXPR_RPAREN + 1)

\* an item of a text: a token identity, or XorItem for the word XOR
XorItem == BEXPR_RPAREN + 1
Items == TokenIds \cup {XorItem}

\* the text of a token identity, as README.md and token_info give it
TextOf(id) ==
    IF id = XorItem THEN <<"X", "O", "R">>
    ELSE Tok(CHOOSE p \in 0..(TOKEN_INFO_LEN - 1) : Tok(p).id = id).text

\* the texts of the items, separated by sep
RECURSIVE JoinText(_, _)
JoinText(items, sep) ==
    IF items = <<>> THEN <<>>
    ELSE IF Len(items) = 1 THEN TextOf(items[1])
    ELSE TextOf(items[1]) \o sep \o JoinText(Tail(items), sep)

Space == <<" ">>

\* all sequences over S of length lo..hi
SeqsOf(S, lo, hi) == UNION {[1..n -> S] : n \in lo..hi}

\* bound of the session specification: tokens in the expression
MaxLen == 2

BlankTexts == {<<>>, <<" ">>, <<" ", " ">>}

\* the texts a session tokenizes: blank texts, every single item, and some
\* texts of two items
SessionTexts ==
    BlankTexts
    \cup {JoinText(<<i>>, Space) : i \in Items}
    \cup {JoinText(s, Space) : s \in {<<BEXPR_TRUE, XorItem>>,
                                      <<BEXPR_NOT, BEXPR_TRUE>>,
                                      <<BEXPR_AND, BEXPR_OR>>,
                                      <<BEXPR_LPAREN, BEXPR_TRUE>>}}

(***************************************************************************)
(* Spec: a session, the API called in any order                            *)
(***************************************************************************)
Init ==
    /\ bexpr_init
    /\ drv = [pc |-> "free"]

Reset ==
    /\ drv.pc = "free"
    /\ bexpr_reset
    /\ UNCHANGED drv

AddToken ==
    /\ drv.pc = "free"
    /\ Len(expr_tokens.tokens) < MaxLen
    /\ \E id \in AnyIds : bexpr_add_token(id)
    /\ UNCHANGED drv

Tokenize ==
    /\ drv.pc = "free"
    /\ \E text \in SessionTexts :
          /\ Len(tokenize(text, expr_tokens, bexpr_errno).list.tokens) <= MaxLen
          /\ bexpr_tokenize(text)
    /\ UNCHANGED drv

Evaluate ==
    /\ drv.pc = "free"
    /\ bexpr_evaluate
    /\ UNCHANGED drv

Next == Reset \/ AddToken \/ Tokenize \/ Evaluate

Spec == Init /\ [][Next]_vars

(***************************************************************************)
(* SpecRun: the test driver. parse_file() initializes the evaluator and    *)
(* hands the expression of a line of the test file to run_test().          *)
(***************************************************************************)
\* bounds of the driver's expressions: tokens in a well-formed expression,
\* items in an arbitrary line
MaxWF == 7
MaxAny == 4

\* the well-formed expressions of n tokens (the grammar of README.md:
\* true, false, !, &&, ||, parentheses)
RECURSIVE WellFormed(_)
WellFormed(n) ==
    IF n < 1 THEN {}
    ELSE IF n = 1 THEN {<<BEXPR_FALSE>>, <<BEXPR_TRUE>>}
    ELSE {<<BEXPR_NOT>> \o e : e \in WellFormed(n - 1)}
         \cup {<<BEXPR_LPAREN>> \o e \o <<BEXPR_RPAREN>> : e \in WellFormed(n - 2)}
         \cup UNION {{x \o <<op>> \o y : x \in WellFormed(a),
                                         y \in WellFormed(n - 1 - a),
                                         op \in {BEXPR_AND, BEXPR_OR}}
                     : a \in 1..(n - 2)}

WellFormedExprs == UNION {WellFormed(n) : n \in 1..MaxWF}

\* the lines of a test file
RunLines == WellFormedExprs \cup SeqsOf(Items, 1, MaxAny)

\* parse_file: bexpr_init(), and the line read from the file (src is the
\* sequence of items the line was written from)
RunInit ==
    /\ bexpr_init
    /\ \E src \in RunLines :
          drv = [pc |-> "reset", src |-> src, text |-> JoinText(src, Space)]

\* run_test(text, ...) is entered: bexpr_reset()
RunReset ==
    /\ drv.pc = "reset"
    /\ bexpr_reset
    /\ drv' = [drv EXCEPT !.pc = "clear"]

\* run_test: bexpr_errno = 0
RunClear ==
    /\ drv.pc = "clear"
    /\ bexpr_errno' = 0
    /\ drv' = [drv EXCEPT !.pc = "tokenize"]
    /\ UNCHANGED <<expr_tokens, token_stack, token_queue, last>>

\* run_test: bexpr_tokenize(text); the test ends here when it fails
RunTokenize ==
    /\ drv.pc = "tokenize"
    /\ bexpr_tokenize(drv.text)
    /\ drv' = [drv EXCEPT !.pc = IF last'.ret THEN "evaluate" ELSE "done"]

\* run_test: bexpr_evaluate(&result)
RunEvaluate ==
    /\ drv.pc = "evaluate"
    /\ bexpr_evaluate
    /\ drv' = [drv EXCEPT !.pc = "done"]

RunNext == RunReset \/ RunClear \/ RunTokenize \/ RunEvaluate

SpecRun == RunInit /\ [][RunNext]_vars

(***************************************************************************)
(* SpecRepeat: a session in any state, then the same text run twice:       *)
(* reset, tokenize, evaluate, and again reset, tokenize, evaluate          *)
(***************************************************************************)
\* what the caller sees after a run
Outcome(tok, call, errno) ==
    [tok |-> tok, ret |-> call.ret, result |-> call.result, errno |-> errno]

RepBegin ==
    /\ drv.pc = "free"
    /\ bexpr_reset
    /\ \E text \in SessionTexts :
          drv' = [pc |-> "tokenize", run |-> 1, text |-> text, tok |-> FALSE,
                  first |-> <<>>, second |-> <<>>]

RepTokenize ==
    /\ drv.pc = "tokenize"
    /\ bexpr_tokenize(drv.text)
    /\ drv' = [drv EXCEPT !.pc = "evaluate", !.tok = last'.ret]

RepEvaluate ==
    /\ drv.pc = "evaluate"
    /\ bexpr_evaluate
    /\ drv' = IF drv.run = 1
              THEN [drv EXCEPT !.pc = "reset", !.run = 2,
                               !.first = Outcome(drv.tok, last', bexpr_errno')]
              ELSE [drv EXCEPT !.pc = "done",
                               !.second = Outcome(drv.tok, last', bexpr_errno')]

RepReset ==
    /\ drv.pc = "reset"
    /\ bexpr_reset
    /\ drv' = [drv EXCEPT !.pc = "tokenize"]

RepeatNext == Next \/ RepBegin \/ RepTokenize \/ RepEvaluate \/ RepReset

SpecRepeat == Init /\ [][RepeatNext]_vars

(***************************************************************************)
(* SpecEquiv: one sequence of token identities built twice, with           *)
(* bexpr_add_token() and with bexpr_tokenize() on the joined texts         *)
(***************************************************************************)
\* bound: token identities in the sequence
MaxEq == 4

\* what the caller sees after building and evaluating
Built(call, errno) ==
    [expr |-> expr_tokens.tokens, ret |-> call.ret, result |-> call.result,
     errno |-> errno]

EquivInit ==
    /\ bexpr_init
    /\ \E ids \in SeqsOf(TokenIds, 0, MaxEq) :
          drv = [pc |-> "add", ids |-> ids, k |-> 0, added |-> TRUE,
                 tok |-> FALSE, first |-> <<>>, second |-> <<>>]

EqAddToken ==
    /\ drv.pc = "add"
    /\ drv.k < Len(drv.ids)
    /\ bexpr_add_token(drv.ids[drv.k + 1])
    /\ drv' = [drv EXCEPT !.k = drv.k + 1, !.added = drv.added /\ last'.ret]

EqEvaluate ==
    /\ \/ drv.pc = "add" /\ drv.k = Len(drv.ids)
       \/ drv.pc = "evaluate"
    /\ bexpr_evaluate
    /\ drv' = IF drv.pc = "add"
              THEN [drv EXCEPT !.pc = "reset",
                               !.first = Built(last', bexpr_errno')]
              ELSE [drv EXCEPT !.pc = "done",
                               !.second = Built(last', bexpr_errno')]

EqReset ==
    /\ drv.pc = "reset"
    /\ bexpr_reset
    /\ drv' = [drv EXCEPT !.pc = "tokenize"]

EqTokenize ==
    /\ drv.pc = "tokenize"
    /\ bexpr_tokenize(JoinText(drv.ids, Space))
    /\ drv' = [drv EXCEPT !.pc = "evaluate", !.tok = last'.ret]

EquivNext == EqAddToken \/ EqEvaluate \/ EqReset \/ EqTokenize

SpecEquiv == EquivInit /\ [][EquivNext]_vars

(***************************************************************************)
(* SpecFill: a long expression, ! repeated and then true, added token by   *)
(* token until the lists have grown; evaluated at any point, then reset    *)
(***************************************************************************)
\* bound: tokens in the long expression
MaxFill == 33

\* every token of the list is the token of identity id
AllAre(list, id) == \A k \in 1..Len(list.tokens) : Tok(list.tokens[k]).id = id

FillInit ==
    /\ bexpr_init
    /\ drv = [pc |-> "fill"]

FillAddToken ==
    /\ drv.pc = "fill"
    /\ token_list_length(expr_tokens) < MaxFill
    /\ AllAre(expr_tokens, BEXPR_NOT)
    /\ \E id \in {BEXPR_NOT, BEXPR_TRUE} : bexpr_add_token(id)
    /\ UNCHANGED drv

FillEvaluate ==
    /\ drv.pc = "fill"
    /\ bexpr_evaluate
    /\ UNCHANGED drv

FillReset ==
    /\ drv.pc = "fill"
    /\ bexpr_reset
    /\ drv' = [drv EXCEPT !.pc = "done"]

FillNext == FillAddToken \/ FillEvaluate \/ FillReset

SpecFill == FillInit /\ [][FillNext]_vars

(***************************************************************************)
(* SpecLex: one sequence of token identities tokenized twice, from its     *)
(* texts separated by single spaces and from a variant of that text        *)
(***************************************************************************)
\* bound: token identities in the sequence
MaxLex == 3

\* lead: a space before the text; trail, trail2: one and two spaces after
\* it; wide: two spaces between the tokens; tight: nothing between them
LexKinds == {"lead", "trail", "trail2", "wide", "tight"}

VariantText(src, kind) ==
    IF kind = "lead" THEN Space \o JoinText(src, Space)
    ELSE IF kind = "trail" THEN JoinText(src, Space) \o Space
    ELSE IF kind = "trail2" THEN JoinText(src, Space) \o Space \o Space
    ELSE IF kind = "wide" THEN JoinText(src, Space \o Space)
    ELSE JoinText(src, <<>>)

\* what the caller sees after a tokenize
Lexed(call, errno) ==
    [ret |-> call.ret, expr |-> expr_tokens'.tokens, errno |-> errno]

LexInit ==
    /\ bexpr_init
    /\ \E src \in SeqsOf(TokenIds, 1, MaxLex), kind \in LexKinds :
          drv = [pc |-> "plain", src |-> src, kind |-> kind,
                 first |-> <<>>, second |-> <<>>]

LexPlain ==
    /\ drv.pc = "plain"
    /\ bexpr_tokenize(JoinText(drv.src, Space))
    /\ drv' = [drv EXCEPT !.pc = "reset", !.first = Lexed(last', bexpr_errno')]

LexReset ==
    /\ drv.pc = "reset"
    /\ bexpr_reset
    /\ drv' = [drv EXCEPT !.pc = "variant"]

LexVariant ==
    /\ drv.pc = "variant"
    /\ bexpr_tokenize(VariantText(drv.src, drv.kind))
    /\ drv' = [drv EXCEPT !.pc = "done", !.second = Lexed(last', bexpr_errno')]

LexNext == LexPlain \/ LexReset \/ LexVariant

SpecLex == LexInit /\ [][LexNext]_vars

(***************************************************************************)
(* SpecStrerror: a caller asks for the message of an error number          *)
(***************************************************************************)
\* bound: how far below 0 and above BEXPR_ERROR_COUNT the numbers go
MaxErr == 24

ErrNums == (0 - MaxErr)..(BEXPR_ERROR_COUNT + MaxErr)

StrerrorInit ==
    /\ bexpr_init
    /\ \E errnum \in ErrNums :
          drv = [pc |-> "call", errnum |-> errnum, msg |-> ""]

Strerror ==
    /\ drv.pc = "call"
    /\ drv' = [drv EXCEPT !.pc = "done", !.msg = bexpr_strerror(drv.errnum)]
    /\ UNCHANGED <<expr_tokens, token_stack, token_queue, bexpr_errno, last>>

SpecStrerror == StrerrorInit /\ [][Strerror]_vars

(***************************************************************************)
(* SpecConvert: an expression is added token by token and bexpr_evaluate   *)
(* is followed through its conversion, one token of the expression at a    *)
(* time. drv.tok is the token the last iteration handled, drv.before the   *)
(* operator stack it found.                                                *)
(***************************************************************************)
\* bound: tokens in the expression
MaxConv == 4

\* the conversion state that the variables hold at iteration drv.i
ConvState ==
    [i |-> drv.i, stack |-> token_stack, queue |-> token_queue,
     status |-> "run", err |-> BEXPR_ERR_OK]

EvaluateFailed ==
    [op |-> "evaluate", arg |-> <<>>, ret |-> FALSE, result |-> FALSE]

ConvInit ==
    /\ bexpr_init
    /\ drv = [pc |-> "build", i |-> 0, tok |-> NULL, before |-> <<>>]

ConvAddToken ==
    /\ drv.pc = "build"
    /\ token_list_length(expr_tokens) < MaxConv
    /\ \E id \in TokenIds : bexpr_add_token(id)
    /\ UNCHANGED drv

\* bexpr_evaluate up to the call of infix_to_postfix
ConvBegin ==
    /\ drv.pc = "build"
    /\ IF token_list_length(expr_tokens) <= 0
       THEN /\ bexpr_errno' = BEXPR_ERR_EMPTY_EXPRESSION
            /\ last' = EvaluateFailed
            /\ drv' = [drv EXCEPT !.pc = "done"]
            /\ UNCHANGED <<token_stack, token_queue>>
       ELSE /\ token_stack' = token_list_reset(token_stack)
            /\ token_queue' = token_list_reset(token_queue)
            /\ drv' = [drv EXCEPT !.pc = "convert"]
            /\ UNCHANGED <<bexpr_errno, last>>
    /\ UNCHANGED expr_tokens

\* one iteration of the for loop of infix_to_postfix
ConvStep ==
    /\ drv.pc = "convert"
    /\ drv.i < token_list_length(expr_tokens)
    /\ LET c == convert_token(expr_tokens, ConvState)
       IN  /\ token_stack' = c.stack
           /\ token_queue' = c.queue
           /\ bexpr_errno' = IF c.status = "fail" THEN c.err ELSE bexpr_errno
           /\ last' = IF c.status = "fail" THEN EvaluateFailed ELSE last
           /\ drv' = [pc |-> IF c.status = "fail" THEN "done" ELSE "convert",
                      i |-> c.i,
                      tok |-> token_list_token_at(expr_tokens, drv.i),
                      before |-> token_stack.tokens]
    /\ UNCHANGED expr_tokens

\* the final loop of infix_to_postfix and the rest of bexpr_evaluate
ConvFinish ==
    /\ drv.pc = "convert"
    /\ drv.i = token_list_length(expr_tokens)
    /\ LET c == convert_drain(ConvState)
       IN  IF c.status = "fail"
           THEN /\ token_stack' = c.stack
                /\ token_queue' = c.queue
                /\ bexpr_errno' = c.err
                /\ last' = EvaluateFailed
           ELSE /\ token_stack' = token_list_reset(c.stack)
                /\ token_queue' = c.queue
                /\ UNCHANGED bexpr_errno
                /\ last' = [op |-> "evaluate", arg |-> <<>>,
                            ret |-> eval_postfix(c.queue).ret,
                            result |-> eval_postfix(c.queue).result]
    /\ drv' = [drv EXCEPT !.pc = "done", !.tok = NULL, !.before = <<>>]
    /\ UNCHANGED expr_tokens

ConvNext == ConvAddToken \/ ConvBegin \/ ConvStep \/ ConvFinish

SpecConvert == ConvInit /\ [][ConvNext]_vars

\* the steps of SpecConvert end where bexpr_evaluate as one call ends
StepsAgreeWithEvaluate ==
    (drv.pc = "done" /\ last.op = "evaluate")
        => LET e == evaluate(expr_tokens, token_list_init, token_list_init,
                             IF last.ret THEN bexpr_errno ELSE BEXPR_ERR_OK)
           IN  /\ e.ret = last.ret
               /\ e.result = last.result
               /\ e.stack = token_stack
               /\ e.queue = token_queue
               /\ e.errno = bexpr_errno

(***************************************************************************)
(* SpecPrefix: a text that ends in a word of token characters: the start   *)
(* of a token text, a whole token text or a digit                          *)
(***************************************************************************)
\* bound: tokens before the word
MaxPre == 2

TokenTexts == {Tok(p).text : p \in 0..(TOKEN_INFO_LEN - 1)}

\* the words: every non-empty start of a token text, and the digits of
\* token_chars
Words ==
    UNION {{SubSeq(t, 1, n) : n \in 1..Len(t)} : t \in TokenTexts}
        \cup {<<"0">>, <<"1">>}

PrefixInit ==
    /\ bexpr_init
    /\ \E pre \in SeqsOf(TokenIds, 0, MaxPre), word \in Words :
          drv = [pc |-> "tokenize", pre |-> pre, word |-> word,
                 text |-> IF pre = <<>> THEN word
                          ELSE JoinText(pre, Space) \o Space \o word]

PrefixTokenize ==
    /\ drv.pc = "tokenize"
    /\ bexpr_tokenize(drv.text)
    /\ drv' = [drv EXCEPT !.pc = "done"]

SpecPrefix == PrefixInit /\ [][PrefixTokenize]_vars

(***************************************************************************)
(* SpecLoop: bexpr_tokenize and bexpr_evaluate on one text, followed one   *)
(* loop iteration at a time. drv.src is the text given, drv.text the text  *)
(* still to scan, drv.i the index of the for loop, drv.oper1 the local     *)
(* oper1. The calls run to completion, so the iterations are weakly fair.  *)
(***************************************************************************)
\* bound: items in the text
MaxLoop == 3

TokenizeReturned(ret) ==
    [op |-> "tokenize", arg |-> <<>>, ret |-> ret, result |-> FALSE]

LoopInit ==
    /\ bexpr_init
    /\ drv = [pc |-> "init", src |-> <<>>, text |-> <<>>, i |-> 0,
              oper1 |-> NULL]

\* the caller passes a text to bexpr_tokenize
LoopCall ==
    /\ drv.pc = "init"
    /\ \E src \in SeqsOf(Items, 0, MaxLoop), tail \in {<<>>, Space} :
          drv' = [drv EXCEPT !.pc = "call",
                             !.src = JoinText(src, Space) \o tail,
                             !.text = JoinText(src, Space) \o tail]
    /\ UNCHANGED <<expr_tokens, token_stack, token_queue, bexpr_errno, last>>

\* bexpr_tokenize up to its loop
LoopTokenizeEnter ==
    /\ drv.pc = "call"
    /\ drv' = [drv EXCEPT !.pc = "tokenize", !.text = skip_whitespace(drv.text)]
    /\ UNCHANGED <<expr_tokens, token_stack, token_queue, bexpr_errno, last>>

\* the test and one iteration of the while loop of bexpr_tokenize
LoopTokenizeIter ==
    /\ drv.pc = "tokenize"
    /\ IF drv.text = <<>>
       THEN /\ last' = TokenizeReturned(TRUE)
            /\ drv' = [drv EXCEPT !.pc = "evaluate"]
            /\ UNCHANGED <<expr_tokens, bexpr_errno>>
       ELSE \E parsed \in {token_parse(skip_whitespace(drv.text))} :
                IF parsed.id = BEXPR_INVALID
                THEN /\ bexpr_errno' = parsed.err
                     /\ last' = TokenizeReturned(FALSE)
                     /\ drv' = [drv EXCEPT !.pc = "done"]
                     /\ UNCHANGED expr_tokens
                ELSE /\ expr_tokens' = add_token(expr_tokens, bexpr_errno,
                                                 parsed.id).list
                     /\ bexpr_errno' = add_token(expr_tokens, bexpr_errno,
                                                 parsed.id).errno
                     /\ drv' = [drv EXCEPT !.text = parsed.endptr]
                     /\ UNCHANGED last
    /\ UNCHANGED <<token_stack, token_queue>>

\* bexpr_evaluate up to the call of infix_to_postfix
LoopEvaluateEnter ==
    /\ drv.pc = "evaluate"
    /\ IF token_list_length(expr_tokens) <= 0
       THEN /\ bexpr_errno' = BEXPR_ERR_EMPTY_EXPRESSION
            /\ last' = EvaluateFailed
            /\ drv' = [drv EXCEPT !.pc = "done"]
            /\ UNCHANGED <<token_stack, token_queue>>
       ELSE /\ token_stack' = token_list_reset(token_stack)
            /\ token_queue' = token_list_reset(token_queue)
            /\ drv' = [drv EXCEPT !.pc = "for", !.i = 0]
            /\ UNCHANGED <<bexpr_errno, last>>
    /\ UNCHANGED expr_tokens

\* the test of the for loop of infix_to_postfix and the start of its body
LoopForIter ==
    /\ drv.pc = "for"
    /\ IF drv.i < token_list_length(expr_tokens)
       THEN LET oper1 == token_list_token_at(expr_tokens, drv.i)
            IN  IF is_operand(Tok(oper1).id)
                THEN /\ token_queue' = token_list_push(token_queue, oper1)
                     /\ drv' = [drv EXCEPT !.i = drv.i + 1, !.oper1 = oper1]
                     /\ UNCHANGED token_stack
                ELSE IF Tok(oper1).id = BEXPR_LPAREN
                THEN /\ token_stack' = token_list_push(token_stack, oper1)
                     /\ drv' = [drv EXCEPT !.i = drv.i + 1, !.oper1 = oper1]
                     /\ UNCHANGED token_queue
                ELSE /\ drv' = [drv EXCEPT
                                  !.pc = IF Tok(oper1).id = BEXPR_RPAREN
                                         THEN "rparen" ELSE "operator",
                                  !.oper1 = oper1]
                     /\ UNCHANGED <<token_stack, token_queue>>
       ELSE /\ drv' = [drv EXCEPT !.pc = "drain"]
            /\ UNCHANGED <<token_stack, token_queue>>
    /\ UNCHANGED <<expr_tokens, bexpr_errno, last>>

\* right parenthesis: the test and one iteration of the pull loop, and the
\* check that follows the loop
LoopRparenIter ==
    /\ drv.pc = "rparen"
    /\ IF ~token_list_is_empty(token_stack)
       THEN /\ token_stack' = rparen_iter(token_stack, token_queue).stack
            /\ token_queue' = rparen_iter(token_stack, token_queue).queue
            /\ drv' = [drv EXCEPT
                         !.oper1 = rparen_iter(token_stack, token_queue).oper1]
            /\ UNCHANGED <<bexpr_errno, last>>
       ELSE /\ IF Tok(drv.oper1).id # BEXPR_LPAREN
               THEN /\ bexpr_errno' = BEXPR_ERR_EXPECTED_LPAREN
                    /\ last' = EvaluateFailed
                    /\ drv' = [drv EXCEPT !.pc = "done"]
               ELSE /\ drv' = [drv EXCEPT !.pc = "for", !.i = drv.i + 1]
                    /\ UNCHANGED <<bexpr_errno, last>>
            /\ UNCHANGED <<token_stack, token_queue>>
    /\ UNCHANGED expr_tokens

\* operator: the test and one iteration of the loop, and the push after it
LoopOperatorIter ==
    /\ drv.pc = "operator"
    /\ IF /\ ~token_list_is_empty(token_stack)
          /\ Tok(token_list_peek(token_stack)).id # BEXPR_LPAREN
          /\ pops_before(token_list_peek(token_stack), drv.oper1)
       THEN /\ token_stack' = token_list_pull(token_stack).list
            /\ token_queue' = token_list_push(token_queue,
                                              token_list_pull(token_stack).token)
            /\ UNCHANGED drv
       ELSE /\ token_stack' = token_list_push(token_stack, drv.oper1)
            /\ drv' = [drv EXCEPT !.pc = "for", !.i = drv.i + 1]
            /\ UNCHANGED token_queue
    /\ UNCHANGED <<expr_tokens, bexpr_errno, last>>

\* the test and one iteration of the final loop of infix_to_postfix, and
\* after it the rest of bexpr_evaluate
LoopDrainIter ==
    /\ drv.pc = "drain"
    /\ IF ~token_list_is_empty(token_stack)
       THEN /\ token_stack' = token_list_pull(token_stack).list
            /\ IF Tok(token_list_pull(token_stack).token).id = BEXPR_LPAREN
               THEN /\ bexpr_errno' = BEXPR_ERR_UNMATCHED_PARENS
                    /\ last' = EvaluateFailed
                    /\ drv' = [drv EXCEPT !.pc = "done"]
                    /\ UNCHANGED token_queue
               ELSE /\ token_queue' =
                           token_list_push(token_queue,
                                           token_list_pull(token_stack).token)
                    /\ UNCHANGED <<bexpr_errno, last, drv>>
       ELSE /\ token_stack' = token_list_reset(token_stack)
            /\ last' = [op |-> "evaluate", arg |-> <<>>,
                        ret |-> eval_postfix(token_queue).ret,
                        result |-> eval_postfix(token_queue).result]
            /\ drv' = [drv EXCEPT !.pc = "done"]
            /\ UNCHANGED <<token_queue, bexpr_errno>>
    /\ UNCHANGED expr_tokens

\* the steps of the two calls
LoopIteration ==
    \/ LoopTokenizeEnter \/ LoopTokenizeIter \/ LoopEvaluateEnter
    \/ LoopForIter \/ LoopRparenIter \/ LoopOperatorIter \/ LoopDrainIter

LoopNext == LoopCall \/ LoopIteration

SpecLoop == LoopInit /\ [][LoopNext]_vars /\ WF_vars(LoopIteration)

\* the iterations of SpecLoop end where the calls taken whole end
LoopAgreesWithCalls ==
    drv.pc = "done"
        => IF last.op = "tokenize"
           THEN LET t == tokenize(drv.src, token_list_init, BEXPR_ERR_OK)
                IN  /\ ~last.ret
                    /\ ~t.ret
                    /\ t.list = expr_tokens
                    /\ t.errno = bexpr_errno
           ELSE LET e == evaluate(expr_tokens, token_list_init,
                                  token_list_init, BEXPR_ERR_OK)
                IN  /\ e.ret = last.ret
                    /\ e.result = last.result
                    /\ e.stack = token_stack
                    /\ e.queue = token_queue
                    /\ e.errno = bexpr_errno

(***************************************************************************)
(* SpecList: the list operations applied to one token list, token_stack.   *)
(* drv.prev holds the elements the list had before the push just made.     *)
(***************************************************************************)
\* bound: elements in the list
MaxList == 33

\* bound: length up to which any token is pushed; a longer list takes
\* copies of its top token only
MaxFree == 3

\* the tokens pushed
ListTokens == {token_get(BEXPR_FALSE), token_get(BEXPR_NOT), token_get(BEXPR_AND)}

ListReturned(op, arg, ret) ==
    [op |-> op, arg |-> arg, ret |-> ret, result |-> FALSE]

ListInit ==
    /\ bexpr_init
    /\ drv = [pc |-> "list", prev |-> <<>>]

ListPush ==
    /\ token_list_length(token_stack) < MaxList
    /\ \E t \in ListTokens :
          /\ token_list_length(token_stack) < MaxFree
                \/ t = token_list_peek(token_stack)
          /\ token_stack' = token_list_push(token_stack, t)
          /\ last' = ListReturned("push", t, NULL)
    /\ drv' = [drv EXCEPT !.prev = token_stack.tokens]
    /\ UNCHANGED <<expr_tokens, token_queue, bexpr_errno>>

\* last.arg: the token of the push made right before the pull, if any
ListPull ==
    /\ token_stack' = token_list_pull(token_stack).list
    /\ last' = ListReturned("pull",
                            IF last.op = "push" THEN last.arg ELSE NULL,
                            token_list_pull(token_stack).token)
    /\ UNCHANGED <<expr_tokens, token_queue, bexpr_errno, drv>>

ListPeek ==
    /\ last' = ListReturned("peek", NULL, token_list_peek(token_stack))
    /\ UNCHANGED <<expr_tokens, token_stack, token_queue, bexpr_errno, drv>>

ListReset ==
    /\ token_stack' = token_list_reset(token_stack)
    /\ last' = ListReturned("reset", NULL, NULL)
    /\ UNCHANGED <<expr_tokens, token_queue, bexpr_errno, drv>>

ListNext == ListPush \/ ListPull \/ ListPeek \/ ListReset

SpecList == ListInit /\ [][ListNext]_vars

(***************************************************************************)
(* Claims checked under Spec                                               *)
(***************************************************************************)
\* C3: the token table lookup by identity returns the entry of that same
\* identity, so the token a successful add_token(id) stores at the end of
\* the expression has the identity id that was supplied.
C3_StoredTokenIsSupplied ==
    (last.op = "add_token" /\ last.ret)
        => Tok(expr_tokens.tokens[Len(expr_tokens.tokens)]).id = last.arg

\* C6: evaluate on an expression with zero tokens (after init, after reset,
\* after tokenizing a blank text) returns failure with bexpr_errno =
\* BEXPR_ERR_EMPTY_EXPRESSION.
C6_EmptyExpressionRejected ==
    (last.op = "evaluate" /\ token_list_length(expr_tokens) = 0)
        => (~last.ret /\ bexpr_errno = BEXPR_ERR_EMPTY_EXPRESSION)

C6_Witness ==
    /\ last.op = "evaluate"
    /\ token_list_length(expr_tokens) = 0
    /\ ~last.ret
    /\ bexpr_errno = BEXPR_ERR_EMPTY_EXPRESSION

\* C10: add_token(id) with id outside FALSE..RPAREN (BEXPR_INVALID = -1 and
\* 7 included) returns false, sets bexpr_errno to BEXPR_ERR_INVALID_TOKEN
\* and leaves the expression, length and contents, unchanged.
C10_InvalidIdRejected ==
    [][(last'.op = "add_token" /\ last'.arg \notin TokenIds)
          => /\ ~last'.ret
             /\ bexpr_errno' = BEXPR_ERR_INVALID_TOKEN
             /\ expr_tokens' = expr_tokens]_vars

C10_Witness ==
    /\ last.op = "add_token"
    /\ last.arg \in {BEXPR_INVALID, BEXPR_RPAREN + 1}
    /\ ~last.ret
    /\ bexpr_errno = BEXPR_ERR_INVALID_TOKEN
    /\ token_list_length(expr_tokens) > 0

\* C11: whenever evaluate returns failure (empty expression, conversion
\* error or evaluation error), the result output is false.
C11_FailureResultFalse ==
    (last.op = "evaluate" /\ ~last.ret) => last.result = FALSE

C11_Witness ==
    /\ last.op = "evaluate"
    /\ ~last.ret
    /\ last.result = FALSE
    /\ bexpr_errno \in {BEXPR_ERR_EXPECTED_LPAREN, BEXPR_ERR_UNMATCHED_PARENS}

\* the codes a failing call of op may set
FailureCodes(op) ==
    IF op = "tokenize"
    THEN {BEXPR_ERR_EXPECTED_TOKEN, BEXPR_ERR_INVALID_TOKEN}
    ELSE IF op = "add_token"
    THEN {BEXPR_ERR_INVALID_TOKEN}
    ELSE {BEXPR_ERR_EXPECTED_LPAREN, BEXPR_ERR_UNMATCHED_PARENS,
          BEXPR_ERR_EMPTY_EXPRESSION, BEXPR_ERR_FATAL}

\* C12: every tokenize, add_token or evaluate call that returns failure sets
\* bexpr_errno during that call to a non-zero code naming the failure
\* (lexical 2 or 3, parenthesis 4 or 6, empty 7, internal 1), so bexpr_errno
\* is never 0 right after a failing call.
C12_FailureSetsErrno ==
    [][(last'.op \in {"tokenize", "add_token", "evaluate"} /\ ~last'.ret)
          => /\ bexpr_errno' # BEXPR_ERR_OK
             /\ bexpr_errno' \in FailureCodes(last'.op)]_vars

\* the first call of a session fails and leaves a code behind
C12_Witness ==
    /\ last.op = "tokenize"
    /\ ~last.ret
    /\ bexpr_errno = BEXPR_ERR_EXPECTED_TOKEN
    /\ token_list_length(expr_tokens) = 0

\* C13: in every sequence of reset/tokenize/add_token/evaluate calls after
\* init, whenever evaluate returns success bexpr_errno equals BEXPR_ERR_OK,
\* also when an earlier expression of the same session failed.
C13_SuccessMeansErrOk ==
    (last.op = "evaluate" /\ last.ret) => bexpr_errno = BEXPR_ERR_OK

\* the item sequences whose space-separated texts are in SessionTexts
SessionLines ==
    {<<i>> : i \in Items}
    \cup {<<BEXPR_TRUE, XorItem>>, <<BEXPR_NOT, BEXPR_TRUE>>,
          <<BEXPR_AND, BEXPR_OR>>, <<BEXPR_LPAREN, BEXPR_TRUE>>}

\* the first item of the line that is no token is at position k
FirstNonToken(s, k) ==
    /\ k \in 1..Len(s)
    /\ s[k] \notin TokenIds
    /\ \A j \in 1..(k - 1) : s[j] \in TokenIds

\* the tokens that adding the first n identities of s stores
StoredFor(s, n) == [j \in 1..n |-> token_get(s[j])]

\* C15: when tokenize(text) fails at the k-th token of text, the expression
\* holds exactly the tokens present before the call followed by the k-1
\* tokens parsed before the failure; nothing is rolled back and no token is
\* added for the failing position.
C15_PartialTokensRemain ==
    [][last'.op = "tokenize"
          => \A s \in SessionLines : \A k \in 1..Len(s) :
                (FirstNonToken(s, k) /\ last'.arg = JoinText(s, Space))
                    => /\ ~last'.ret
                       /\ expr_tokens'.tokens
                              = expr_tokens.tokens \o StoredFor(s, k - 1)]_vars

\* a failing tokenize at the second token, on an expression that held a token
C15_Witness ==
    /\ last.op = "tokenize"
    /\ last.arg = JoinText(<<BEXPR_TRUE, XorItem>>, Space)
    /\ ~last.ret
    /\ token_list_length(expr_tokens) = 2

C24_CallsAppend ==
    [][/\ (last'.op = "tokenize" /\ last'.ret)
            => /\ \A s \in SessionLines :
                     last'.arg = JoinText(s, Space)
                         => expr_tokens'.tokens
                                = expr_tokens.tokens \o StoredFor(s, Len(s))
               /\ last'.arg \in BlankTexts
                     => expr_tokens'.tokens = expr_tokens.tokens
       /\ (last'.op = "add_token" /\ last'.ret)
            => expr_tokens'.tokens
                   = expr_tokens.tokens \o <<token_get(last'.arg)>>]_vars

\* false tokenized onto an expression that held the token true
C24_Witness ==
    /\ last.op = "tokenize"
    /\ last.ret
    /\ last.arg = TextOf(BEXPR_FALSE)
    /\ expr_tokens.tokens = <<token_get(BEXPR_TRUE), token_get(BEXPR_FALSE)>>

\* C25: evaluate does not modify the infix expression and empties the
\* operator stack and output queue before converting: calling evaluate twice
\* in a row without reset returns the same success flag, the same result
\* and the same error code, whatever the stack and queue held before the
\* call (including leftovers of a failed conversion).
C25_EvaluateTwiceSame ==
    [][last'.op = "evaluate"
          => /\ expr_tokens' = expr_tokens
             /\ LET again == evaluate(expr_tokens', token_stack', token_queue',
                                      bexpr_errno')
                IN  /\ again.ret = last'.ret
                    /\ again.result = last'.result
                    /\ again.errno = bexpr_errno'
                    /\ again.stack = token_stack'
                    /\ again.queue = token_queue']_vars

\* a failed conversion that left a token on the operator stack
C25_Witness ==
    /\ last.op = "evaluate"
    /\ ~last.ret
    /\ token_list_length(token_stack) > 0
    /\ token_list_length(expr_tokens) > 0

(***************************************************************************)
(* Claims checked under SpecFill                                           *)
(***************************************************************************)
\* C14: after reset in any state reached after init, the expression, the
\* operator stack and the output queue all have length 0 while their
\* capacities are unchanged, and an evaluate issued immediately afterwards
\* fails with BEXPR_ERR_EMPTY_EXPRESSION.
C14_ResetEmptiesKeepsCapacity ==
    [][last'.op = "reset"
          => /\ token_list_length(expr_tokens') = 0
             /\ token_list_length(token_stack') = 0
             /\ token_list_length(token_queue') = 0
             /\ expr_tokens'.size = expr_tokens.size
             /\ token_stack'.size = token_stack.size
             /\ token_queue'.size = token_queue.size
             /\ ~evaluate(expr_tokens', token_stack', token_queue',
                          bexpr_errno').ret
             /\ evaluate(expr_tokens', token_stack', token_queue',
                         bexpr_errno').errno = BEXPR_ERR_EMPTY_EXPRESSION]_vars

\* reset after all three lists have grown beyond their initial size
C14_Witness ==
    /\ last.op = "reset"
    /\ token_list_length(expr_tokens) = 0
    /\ token_list_length(token_stack) = 0
    /\ token_list_length(token_queue) = 0
    /\ expr_tokens.size > TLIST_INITIAL_SIZE
    /\ token_stack.size > TLIST_INITIAL_SIZE
    /\ token_queue.size > TLIST_INITIAL_SIZE

(***************************************************************************)
(* Claims checked under SpecRun                                            *)
(***************************************************************************)
\* number of tokens id among the first k items of s
CountOf(s, id, k) == Cardinality({j \in 1..k : s[j] = id})

\* nesting depth of position k of s: parentheses opened and not closed
\* before it
DepthAt(s, k) ==
    CountOf(s, BEXPR_LPAREN, k - 1) - CountOf(s, BEXPR_RPAREN, k - 1)

\* the positions of the operator op outside every parenthesis
TopLevel(s, op) == {k \in 1..Len(s) : s[k] = op /\ DepthAt(s, k) = 0}

SetMax(S) == CHOOSE x \in S : \A y \in S : x >= y

\* the boolean value of a well-formed expression: ! binds tighter than &&,
\* && tighter than ||, && and || group left to right
RECURSIVE ValueOf(_)
ValueOf(s) ==
    IF TopLevel(s, BEXPR_OR) # {}
    THEN LET k == SetMax(TopLevel(s, BEXPR_OR))
         IN  ValueOf(SubSeq(s, 1, k - 1)) \/ ValueOf(SubSeq(s, k + 1, Len(s)))
    ELSE IF TopLevel(s, BEXPR_AND) # {}
    THEN LET k == SetMax(TopLevel(s, BEXPR_AND))
         IN  ValueOf(SubSeq(s, 1, k - 1)) /\ ValueOf(SubSeq(s, k + 1, Len(s)))
    ELSE IF s[1] = BEXPR_NOT THEN ~ValueOf(Tail(s))
    ELSE IF s[1] = BEXPR_LPAREN THEN ValueOf(SubSeq(s, 2, Len(s) - 1))
    ELSE s[1] = BEXPR_TRUE

HasParen(s) == \E k \in 1..Len(s) : s[k] \in {BEXPR_LPAREN, BEXPR_RPAREN}

OnlyTokens(s) == \A k \in 1..Len(s) : s[k] \in TokenIds

\* some ')' of s has no matching earlier '('
UnmatchedRParen(s) ==
    \E k \in 1..Len(s) :
        CountOf(s, BEXPR_RPAREN, k) > CountOf(s, BEXPR_LPAREN, k)

\* some '(' of s is never closed, and no ')' is unmatched
UnclosedLParen(s) ==
    /\ ~UnmatchedRParen(s)
    /\ CountOf(s, BEXPR_LPAREN, Len(s)) > CountOf(s, BEXPR_RPAREN, Len(s))

\* run_test has tokenized and evaluated the line
Evaluated == drv.pc = "done" /\ last.op = "evaluate"

\* C1: for every well-formed expression without parentheses, tokenize
\* followed by evaluate returns success and the expression's boolean value
\* (true && false gives false, true || false && false gives true).
C1_ValueOfExpression ==
    (drv.pc = "done" /\ drv.src \in WellFormedExprs /\ ~HasParen(drv.src))
        => (Evaluated /\ last.ret /\ last.result = ValueOf(drv.src))

\* C2: for every well-formed expression with parentheses, tokenize followed
\* by evaluate returns success and sets no parenthesis error.
C2_GroupsAccepted ==
    (drv.pc = "done" /\ drv.src \in WellFormedExprs /\ HasParen(drv.src))
        => /\ Evaluated
           /\ last.ret
           /\ bexpr_errno \notin {BEXPR_ERR_EXPECTED_LPAREN,
                                  BEXPR_ERR_EXPECTED_RPAREN,
                                  BEXPR_ERR_UNMATCHED_PARENS}

\* C4: for every token sequence in which some ')' has no matching earlier
\* '(', tokenize followed by evaluate returns failure with bexpr_errno =
\* BEXPR_ERR_EXPECTED_LPAREN.
C4_MissingLParen ==
    (drv.pc = "done" /\ OnlyTokens(drv.src) /\ UnmatchedRParen(drv.src))
        => (Evaluated /\ ~last.ret /\ bexpr_errno = BEXPR_ERR_EXPECTED_LPAREN)

\* C5: for every token sequence in which some '(' is never closed and no
\* ')' is unmatched, evaluate returns failure with bexpr_errno =
\* BEXPR_ERR_UNMATCHED_PARENS.
C5_UnclosedLParen ==
    (drv.pc = "done" /\ OnlyTokens(drv.src) /\ UnclosedLParen(drv.src))
        => (Evaluated /\ ~last.ret /\ bexpr_errno = BEXPR_ERR_UNMATCHED_PARENS)

MalformedLines ==
    {<<BEXPR_AND>>, <<BEXPR_TRUE, BEXPR_AND>>, <<BEXPR_NOT>>,
     <<BEXPR_TRUE, BEXPR_TRUE>>, <<BEXPR_LPAREN, BEXPR_RPAREN>>}

\* C18: evaluate fails with BEXPR_ERR_FATAL for every token sequence that
\* passes parenthesis checking but whose postfix form is malformed: an
\* operator with too few operands (&&, true &&, !), more than one value
\* left (true true) or no value at all (( )).
C18_MalformedPostfixFatal ==
    (drv.pc = "done" /\ drv.src \in MalformedLines)
        => (Evaluated /\ ~last.ret /\ bexpr_errno = BEXPR_ERR_FATAL)

\* the postfix form of a well-formed expression without parentheses, parsed
\* with ! above && above ||, && and || grouping left to right
RECURSIVE PostfixOf(_)
PostfixOf(s) ==
    IF TopLevel(s, BEXPR_OR) # {}
    THEN LET k == SetMax(TopLevel(s, BEXPR_OR))
         IN  PostfixOf(SubSeq(s, 1, k - 1)) \o PostfixOf(SubSeq(s, k + 1, Len(s)))
                 \o <<BEXPR_OR>>
    ELSE IF TopLevel(s, BEXPR_AND) # {}
    THEN LET k == SetMax(TopLevel(s, BEXPR_AND))
         IN  PostfixOf(SubSeq(s, 1, k - 1)) \o PostfixOf(SubSeq(s, k + 1, Len(s)))
                 \o <<BEXPR_AND>>
    ELSE IF s[1] = BEXPR_NOT THEN PostfixOf(Tail(s)) \o <<BEXPR_NOT>>
    ELSE s

\* the identities of the tokens of a list, first to last
IdsOf(list) == [k \in 1..Len(list.tokens) |-> Tok(list.tokens[k]).id]

\* C21: for every well-formed parenthesis-free expression over true, false,
\* !, && and ||, conversion succeeds and the output queue is the postfix
\* form of the expression parsed with ! > && > || and left-associative &&
\* and || (false || false || true gives false false || true ||).
C21_PostfixOfExpression ==
    (drv.pc = "done" /\ drv.src \in WellFormedExprs /\ ~HasParen(drv.src))
        => /\ Evaluated
           /\ last.ret
           /\ IdsOf(token_queue) = PostfixOf(drv.src)

(***************************************************************************)
(* Claims checked under SpecLex                                            *)
(***************************************************************************)
\* C16: whitespace before and after every token is skipped: tokenize
\* succeeds on a text that has whitespace after its last token and yields
\* the same tokens as the text without the trailing whitespace.
C16_TrailingWhitespaceSkipped ==
    (drv.pc = "done" /\ drv.kind \in {"trail", "trail2"})
        => /\ drv.first.ret
           /\ drv.second.ret
           /\ drv.second.expr = drv.first.expr

\* C17: for every sequence of tokens, tokenizing the concatenation of their
\* texts with no whitespace between them succeeds and yields the same token
\* sequence as tokenizing the same texts separated by spaces.
C17_AdjacentTokens ==
    (drv.pc = "done" /\ drv.kind = "tight")
        => /\ drv.first.ret
           /\ drv.second.ret
           /\ drv.second.expr = drv.first.expr
           /\ drv.second.expr = StoredFor(drv.src, Len(drv.src))

\* true&&false tokenized into three tokens
C17_Witness ==
    /\ drv.pc = "done"
    /\ drv.kind = "tight"
    /\ drv.src = <<BEXPR_TRUE, BEXPR_AND, BEXPR_FALSE>>
    /\ last.arg = <<"t","r","u","e","&","&","f","a","l","s","e">>
    /\ drv.second.ret
    /\ Len(drv.second.expr) = 3

(***************************************************************************)
(* Claims checked under SpecStrerror                                       *)
(***************************************************************************)
\* the message that belongs to each code of the error enum
MessageOf(code) ==
    CASE code = BEXPR_ERR_OK -> "OK"
      [] code = BEXPR_ERR_FATAL -> "fatal error"
      [] code = BEXPR_ERR_EXPECTED_TOKEN -> "expected token"
      [] code = BEXPR_ERR_INVALID_TOKEN -> "invalid token"
      [] code = BEXPR_ERR_EXPECTED_LPAREN -> "expected left parenthesis"
      [] code = BEXPR_ERR_EXPECTED_RPAREN -> "expected right parenthesis"
      [] code = BEXPR_ERR_UNMATCHED_PARENS -> "unmatched parentheses"
      [] code = BEXPR_ERR_EMPTY_EXPRESSION -> "expression is empty"
      [] OTHER -> "unknown error"

\* C19: bexpr_strerror(code) returns the message that belongs to code for
\* each of the eight codes 0..7, in the order of the error enum, and returns
\* "unknown error" for every other integer, including negative values and
\* BEXPR_ERROR_COUNT.
C19_StrerrorMessages ==
    drv.pc = "done"
        => /\ drv.msg = MessageOf(drv.errnum)
           /\ drv.errnum \notin BEXPR_ERR_OK..BEXPR_ERR_EMPTY_EXPRESSION
                 => drv.msg = "unknown error"

C19_Witness ==
    /\ drv.pc = "done"
    /\ drv.errnum = BEXPR_ERR_OK
    /\ drv.msg = "OK"

\* the messages at the edges of the table: -1 and BEXPR_ERROR_COUNT
C19_WitnessUnknown ==
    /\ drv.pc = "done"
    /\ drv.errnum \in {BEXPR_INVALID, BEXPR_ERROR_COUNT}
    /\ drv.msg = "unknown error"

(***************************************************************************)
(* Claims checked under SpecConvert                                        *)
(***************************************************************************)
\* the positions of the left parentheses of a stack
LParensOf(st) == {k \in 1..Len(st) : Tok(st[k]).id = BEXPR_LPAREN}

\* the tokens below the topmost left parenthesis of a stack
BelowTopLParen(st) == SubSeq(st, 1, SetMax(LParensOf(st)) - 1)

\* C20: while converting, on a ')' token the converter stops pulling from
\* the operator stack at the first '(' it pops: that '(' is discarded, and
\* the tokens that were below it on the stack stay on the stack, in the
\* same order, after the ')' has been processed.
C20_RParenStopsAtLParen ==
    (/\ drv.pc \in {"convert", "done"}
     /\ drv.tok # NULL
     /\ Tok(drv.tok).id = BEXPR_RPAREN
     /\ LParensOf(drv.before) # {})
        => token_stack.tokens = BelowTopLParen(drv.before)

(***************************************************************************)
(* Claims checked under SpecPrefix                                         *)
(***************************************************************************)
\* C22: tokenize fails with BEXPR_ERR_INVALID_TOKEN when the run of
\* alphabet characters at the scan position does not start with the
\* complete text of any token (&, |, t, tru, fals, 0), and never adds a
\* token for a text that is only a proper prefix of a token text.
C22_ProperPrefixRejected ==
    (drv.pc = "done" /\ drv.word \notin TokenTexts)
        => /\ ~last.ret
           /\ bexpr_errno = BEXPR_ERR_INVALID_TOKEN
           /\ expr_tokens.tokens = StoredFor(drv.pre, Len(drv.pre))

IsOperandToken(t) == Tok(t).id \in {BEXPR_FALSE, BEXPR_TRUE}

\* how many tokens of the sequence have the identity id
TokensOf(seq, id) == Cardinality({k \in 1..Len(seq) : Tok(seq[k]).id = id})

\* C26: whenever conversion succeeds, the operator stack is empty and the
\* output queue contains exactly the non-parenthesis tokens of the infix
\* expression (the same number of each identity, no '(' and no ')'), with
\* the operands in their original left-to-right order.
C26_QueueHoldsNonParens ==
    (drv.pc = "done" /\ last.op = "evaluate" /\ last.ret)
        => LET c == infix_to_postfix(expr_tokens, token_list_init,
                                     token_list_init)
           IN  /\ c.status = "ok"
               /\ token_list_is_empty(c.stack)
               /\ c.queue = token_queue
               /\ \A id \in TokenIds :
                     TokensOf(token_queue.tokens, id)
                         = IF id \in {BEXPR_LPAREN, BEXPR_RPAREN} THEN 0
                           ELSE TokensOf(expr_tokens.tokens, id)
               /\ SelectSeq(token_queue.tokens, IsOperandToken)
                      = SelectSeq(expr_tokens.tokens, IsOperandToken)

\* the stored expression ( ! true ) converted to true !
C26_Witness ==
    /\ drv.pc = "done"
    /\ last.op = "evaluate"
    /\ last.ret
    /\ IdsOf(expr_tokens) = <<BEXPR_LPAREN, BEXPR_NOT, BEXPR_TRUE, BEXPR_RPAREN>>
    /\ IdsOf(token_queue) = <<BEXPR_TRUE, BEXPR_NOT>>

Operators == {BEXPR_NOT, BEXPR_AND, BEXPR_OR}

\* C27: at every step of a conversion the operator stack holds only NOT,
\* AND, OR and '(' tokens (never an operand and never ')'), and the
\* precedence comparison is only ever made between two of NOT/AND/OR, never
\* with the precedence 4 of a parenthesis.
C27_StackHoldsOperators ==
    /\ \A k \in 1..Len(token_stack.tokens) :
          Tok(token_stack.tokens[k]).id \in Operators \cup {BEXPR_LPAREN}
    /\ (drv.pc \in {"convert", "done"} /\ drv.tok # NULL)
          => \A oper2 \in compared([tokens |-> drv.before,
                                    size |-> token_stack.size], drv.tok) :
                (/\ ~is_operand(Tok(drv.tok).id)
                 /\ Tok(drv.tok).id \notin {BEXPR_LPAREN, BEXPR_RPAREN})
                    => /\ Tok(oper2).id \in Operators
                       /\ Tok(drv.tok).id \in Operators
                       /\ Tok(oper2).prec # 4
                       /\ Tok(drv.tok).prec # 4

\* an operator compared with the operator above a left parenthesis
C27_Witness ==
    /\ drv.pc = "convert"
    /\ drv.tok # NULL
    /\ Tok(drv.tok).id \in Operators
    /\ LParensOf(drv.before) # {}
    /\ compared([tokens |-> drv.before, size |-> token_stack.size],
                drv.tok) # {}

(***************************************************************************)
(* Claims checked under SpecLoop                                           *)
(***************************************************************************)
\* an iteration that stays in its loop advances the scan position, and in
\* an inner loop of infix_to_postfix takes one token from the stack
LoopProgress ==
    /\ (drv.pc = "tokenize" /\ drv'.pc = "tokenize")
          => Len(drv'.text) < Len(drv.text)
    /\ (drv.pc \in {"rparen", "operator", "drain"} /\ drv'.pc = drv.pc)
          => token_list_length(token_stack')
                 = token_list_length(token_stack) - 1

\* C28: tokenize terminates on every finite text (each loop iteration
\* either fails or advances the scan position by at least one character)
\* and evaluate terminates on every finite expression (each iteration of an
\* inner loop removes one token from the operator stack or leaves the loop).
C28_CallsTerminate ==
    /\ [][LoopProgress]_vars
    /\ (drv.pc = "tokenize") ~> (drv.pc \in {"evaluate", "done"})
    /\ (drv.pc \in {"evaluate", "for", "rparen", "operator", "drain"})
           ~> (drv.pc = "done")

\* an evaluate that has returned after its right parenthesis loop pulled
\* tokens
C28_Witness ==
    /\ drv.pc = "done"
    /\ last.op = "evaluate"
    /\ \E k \in 1..Len(expr_tokens.tokens) :
          /\ k > 1
          /\ Tok(expr_tokens.tokens[k]).id = BEXPR_RPAREN
    /\ token_list_length(token_queue) > 0

(***************************************************************************)
(* Claims checked under SpecList                                           *)
(***************************************************************************)
ListLifo ==
    /\ (last.op = "push" /\ last'.op = "pull")
          => /\ last'.ret = last.arg
             /\ token_stack'.tokens = drv.prev
             /\ token_list_length(token_stack') = Len(drv.prev)
    /\ last'.op = "peek"
          => /\ token_stack' = token_stack
             /\ last'.ret = IF token_list_is_empty(token_stack)
                            THEN NULL
                            ELSE token_stack.tokens[Len(token_stack.tokens)]
    /\ (last'.op \in {"pull", "peek"} /\ token_list_is_empty(token_stack))
          => /\ last'.ret = NULL
             /\ token_list_is_empty(token_stack')

\* C29: For the token list, pull right after push(t) returns t and restores
\* the previous contents and length (last-in-first-out); peek returns the
\* top token without changing the list; pull and peek on an empty list
\* return the not-found value (NULL) and leave the list empty.
C29_LastInFirstOut == [][ListLifo]_vars

\* a pull right after a push onto a list of two or more tokens, the pushed
\* token differing from the first token of the list
C29_Witness ==
    /\ last.op = "pull"
    /\ last.arg # NULL
    /\ token_list_length(token_stack) >= 2
    /\ token_stack.tokens[1] # last.arg

\* the list is within its capacity and each element is found at its index
ListWithin(list) ==
    /\ 0 <= token_list_length(list)
    /\ token_list_length(list) <= list.size
    /\ \A k \in 1..Len(list.tokens) :
          token_list_token_at(list, k - 1) = list.tokens[k]

ListCapacity ==
    /\ last'.op = "push"
          => /\ token_stack'.size =
                   IF token_list_length(token_stack) = token_stack.size
                   THEN 2 * token_stack.size
                   ELSE token_stack.size
             /\ token_stack'.tokens = Append(token_stack.tokens, last'.arg)
    /\ last'.op \in {"pull", "reset"}
          => token_stack'.size = token_stack.size

\* C30: After any sequence of push, pull and reset on a token list,
\* 0 <= length <= capacity holds and every stored element lies at an index
\* below the capacity; a push onto a full list doubles the capacity and
\* keeps all existing elements in order, and pull and reset never change
\* the capacity.
C30_ListWithinCapacity == []ListWithin(token_stack) /\ [][ListCapacity]_vars

\* a push onto a full list has been made
C30_Witness ==
    /\ last.op = "push"
    /\ token_stack.size = 2 * TLIST_INITIAL_SIZE
    /\ token_list_length(token_stack) = TLIST_INITIAL_SIZE + 1

(***************************************************************************)
(* Claims checked under SpecEquiv and SpecRepeat                           *)
(***************************************************************************)
\* C8: for every sequence of valid token identities, building the expression
\* with add_token calls and building it with tokenize on the space-joined
\* token texts succeed alike and give the same stored expression and the
\* same evaluate outcome (success flag, result and error code).
C8_AddTokenEqualsTokenize ==
    drv.pc = "done" => (drv.added /\ drv.tok /\ drv.first = drv.second)

C8_Witness ==
    /\ drv.pc = "done"
    /\ drv.ids = <<BEXPR_TRUE, BEXPR_AND, BEXPR_FALSE>>
    /\ drv.added /\ drv.tok
    /\ drv.first = drv.second
    /\ Len(drv.second.expr) = 3

\* C9: from any session state, running reset; tokenize(t); evaluate twice in
\* a row on the same text t gives the same return values of tokenize and
\* evaluate, the same result and the same bexpr_errno after each run.
C9_RepeatedRunSameOutcome ==
    drv.pc = "done" => drv.first = drv.second

C9_Witness ==
    /\ drv.pc = "done"
    /\ drv.first = drv.second
    /\ drv.first.tok /\ drv.first.ret
    /\ drv.first.errno # BEXPR_ERR_OK

====
